---- MODULE Spec2Model ----
(***************************************************************************)
(* The three dashboards of the repository (dashboard.py,                   *)
(* dashboard_enhanced.py, streamlit_app.py): one fetch per instrument of   *)
(* pharma_stocks, calculate_change on each fetched frame, the summary      *)
(* (sort_values / iloc[0] / iloc[-1] / mean) and the charts.               *)
(*                                                                         *)
(* Spec leaves every answer of the DataSource open; SpecCalc applies       *)
(* calculate_change to frames of its own; SpecRepeat repeats requests over *)
(* a DataSource that is fixed per (ticker, period); SpecCache runs         *)
(* streamlit_app with its st.cache_data entries, Refresh and expiry.       *)
(*                                                                         *)
(* Closing prices are integers.  A float result is the pair [n, d] meaning *)
(* n/d with d > 0; d = 0 encodes what numpy float64 division by zero       *)
(* yields: n = 1 is +inf, n = -1 is -inf, n = 0 is NaN.                    *)
(***************************************************************************)
EXTENDS Integers, Sequences, FiniteSets, TLC

\* ------------------------------------------------------------------ bounds
\* instruments of pharma_stocks that are iterated (a prefix of the six)
NumTickers == 3
\* closes the DataSource returns during an aggregation: 0..MaxClose
MaxClose == 1
\* closes handed to calculate_change on its own: -CalcMaxClose..CalcMaxClose
CalcMaxClose == 2
\* frames handed to calculate_change on its own have 0..CalcMaxLen rows
CalcMaxLen == 3
\* instruments (a prefix of Universe) for which the DataSource has an answer
\* where requests are repeated over several periods; for the others
\* stock.history raises
KeyedTickers == 2

\* ------------------------------------------------------- configuration
pharma_stocks ==
    << [ticker |-> "SUNPHARMA.NS",  name |-> "Sun Pharma"],
       [ticker |-> "DRREDDY.NS",    name |-> "Dr. Reddy's Labs"],
       [ticker |-> "CIPLA.NS",      name |-> "Cipla"],
       [ticker |-> "LUPIN.NS",      name |-> "Lupin"],
       [ticker |-> "AUROPHARMA.NS", name |-> "Aurobindo Pharma"],
       [ticker |-> "DIVISLAB.NS",   name |-> "Divi's Laboratories"] >>

\* the items() the loops walk, in insertion order
Universe == SubSeq(pharma_stocks, 1, NumTickers)

Variants == {"dashboard", "dashboard_enhanced", "streamlit_app"}

\* value of the period selector in the requests of the model (the default of
\* all three selectors); the period is only passed on to stock.history,
\* whose answers are left open below whatever the period is
Periods == {"1y"}

\* selector values where requests are repeated and the period changes: the
\* default and one other option
KeyedPeriods == {"1y", "1mo"}

\* the arguments of get_stock_data, which st.cache_data hashes into its key
CacheKey(ticker, period) == << ticker, period >>

Keys == {CacheKey(Universe[i].ticker, p) :
            i \in 1..Len(Universe), p \in KeyedPeriods}

\* ------------------------------------------------------------ frames
\* what get_stock_data hands back: None, or a DataFrame whose Close column
\* is the sequence close (possibly empty)
None == [isNone |-> TRUE, close |-> << >>]
DataFrame(c) == [isNone |-> FALSE, close |-> c]

SeqsUpTo(S, lo, hi) == UNION {[1..k -> S] : k \in lo..hi}

\* row counts of the frames the DataSource returns during an aggregation:
\* an empty frame, one row, or a first and a last row
SourceRows == 0..2

\* Close columns of the DataSource during an aggregation
SourceCloses == UNION {[1..k -> 0..MaxClose] : k \in SourceRows}

\* ------------------------------------------------------ float64 values
Sgn(x) == IF x > 0 THEN 1 ELSE IF x < 0 THEN -1 ELSE 0

NaN == [n |-> 0, d |-> 0]
IsNaN(r) == r.d = 0 /\ r.n = 0
IsFinite(r) == r.d > 0
FloatOf(k) == [n |-> k, d |-> 1]

\* x / y on numpy float64 scalars: no exception on y = 0, but inf or nan
FDiv(x, y) ==
    IF y > 0 THEN [n |-> x, d |-> y]
    ELSE IF y < 0 THEN [n |-> -x, d |-> -y]
    ELSE [n |-> Sgn(x), d |-> 0]

\* r * k for an integer k > 0
FMul(r, k) == IF r.d = 0 THEN r ELSE [n |-> r.n * k, d |-> r.d]

\* r / k for an integer k > 0
FDivInt(r, k) == IF r.d = 0 THEN r ELSE [n |-> r.n, d |-> r.d * k]

FAdd(a, b) ==
    IF IsNaN(a) \/ IsNaN(b) THEN NaN
    ELSE IF a.d = 0 /\ b.d = 0 THEN (IF a.n = b.n THEN a ELSE NaN)
    ELSE IF a.d = 0 THEN a
    ELSE IF b.d = 0 THEN b
    ELSE [n |-> a.n * b.d + b.n * a.d, d |-> a.d * b.d]

\* a < b on two values that are not NaN
FLess(a, b) ==
    IF a.d = 0 \/ b.d = 0
    THEN (IF a.d = 0 THEN a.n ELSE 0) < (IF b.d = 0 THEN b.n ELSE 0)
    ELSE a.n * b.d < b.n * a.d

\* the same float value (NaN taken as one value)
FSame(a, b) ==
    IF a.d = 0 \/ b.d = 0 THEN a.d = b.d /\ a.n = b.n
    ELSE a.n * b.d = b.n * a.d

\* ------------------------------------------------------ calculate_change
\* dashboard.py and dashboard_enhanced.py: no guard on start_price
calculate_change_unguarded(df) ==
    IF ~df.isNone /\ Len(df.close) > 0
    THEN LET start_price == df.close[1]
             end_price == df.close[Len(df.close)]
         IN  FMul(FDiv(end_price - start_price, start_price), 100)
    ELSE FloatOf(0)

\* streamlit_app.py: start_price > 0 is required, else falls through to 0
calculate_change_guarded(df) ==
    IF ~df.isNone /\ Len(df.close) > 0
    THEN LET start_price == df.close[1]
             end_price == df.close[Len(df.close)]
         IN  IF start_price > 0
             THEN FMul(FDiv(end_price - start_price, start_price), 100)
             ELSE FloatOf(0)
    ELSE FloatOf(0)

\* calculate_change dividing by the last close instead of the first
calculate_change_by_end(v, df) ==
    IF ~df.isNone /\ Len(df.close) > 0
    THEN LET start_price == df.close[1]
             end_price == df.close[Len(df.close)]
         IN  FMul(FDiv(end_price - start_price, end_price), 100)
    ELSE FloatOf(0)

calculate_change(v, df) ==
    IF v = "streamlit_app" THEN calculate_change_guarded(df)
    ELSE calculate_change_unguarded(df)

\* current_price = df['Close'].iloc[-1]
current_price_of(df) == df.close[Len(df.close)]

\* --------------------------------------------------------- get_stock_data
\* a get_stock_data whose try block does not read stock.info
get_stock_data_without_info(v, hist, infoRaises) ==
    CASE v = "dashboard" ->
            IF hist.raises THEN None ELSE DataFrame(hist.close)
      [] v = "dashboard_enhanced" ->
            IF hist.raises THEN None ELSE DataFrame(hist.close)
      [] v = "streamlit_app" ->
            IF hist.raises THEN None
            ELSE IF hist.close = << >> THEN None
            ELSE DataFrame(hist.close)

\* hist: what stock.history(period) does, [raises, close]
\* infoRaises: whether stock.info raises (read by dashboard_enhanced only)
get_stock_data(v, hist, infoRaises) ==
    CASE v = "dashboard" ->
            IF hist.raises THEN None ELSE DataFrame(hist.close)
      [] v = "dashboard_enhanced" ->
            IF hist.raises \/ infoRaises THEN None ELSE DataFrame(hist.close)
      [] v = "streamlit_app" ->
            IF hist.raises THEN None
            ELSE IF hist.close = << >> THEN None
            ELSE DataFrame(hist.close)

\* the answers of stock.history: an exception, or a frame
HistoryOutcomes ==
    {[raises |-> TRUE, close |-> << >>]}
    \cup {[raises |-> FALSE, close |-> c] : c \in SourceCloses}

\* whether stock.info raises: it is reached by dashboard_enhanced only, and
\* only once stock.history has returned
InfoOutcomes(v, hist) ==
    IF v = "dashboard_enhanced" /\ ~hist.raises THEN BOOLEAN ELSE {FALSE}

\* what became of `info = stock.info` in one get_stock_data call: whether the
\* line was reached, whether it raised, and whether the history it followed
\* had rows
NoInfoCall == [called |-> FALSE, raised |-> FALSE, rows |-> FALSE]

InfoCall(v, hist, infoRaises) ==
    IF v = "dashboard_enhanced" /\ ~hist.raises
    THEN [called |-> TRUE, raised |-> infoRaises, rows |-> hist.close # << >>]
    ELSE NoInfoCall

\* ------------------------------------------------------------------ state
VARIABLES
    variant,          \* which of the three scripts is running
    selected_period,  \* value of the period selector for this request
    pc,               \* position of the request in the script
    idx,              \* position of the loop in pharma_stocks.items()
    calls,            \* stock.history calls made for each instrument
    fetch_log,        \* what get_stock_data returned, per finished iteration
    info_log,         \* what became of stock.info, per finished iteration
    all_data,         \* dict name -> {df, change, current_price, ticker}
    performance_data, \* list of {Company, Change, Price}
    performance_df,   \* performance_data sorted by Change, descending
    best_performer,   \* << >> while None, else <<row>>
    worst_performer,  \* << >> while None, else <<row>>
    avg_performance,
    comparison_fig,   \* traces of the normalized comparison chart
    graphs,           \* per-instrument charts, in order of creation
    calc_df,          \* argument of a stand-alone calculate_change call
    calc_result,      \* << >> before that call returns, else <<value>>
    calc_price,       \* << >> unless the loop body ran on calc_df: <<price>>
    universe,         \* the module-level dict pharma_stocks, as the loops read it
    source,           \* answers of a DataSource that is fixed per (ticker, period)
    seen,             \* per period, the results of the first request that ended
    sort_memo,        \* the order argsort gave, per sort key it was called on
    cache,            \* st.cache_data entries of get_stock_data, per key
    source_calls      \* DataSource calls made for a key while its entry is kept

vars == << variant, selected_period, pc, idx, calls, fetch_log, info_log,
           all_data, performance_data, performance_df, best_performer,
           worst_performer, avg_performance, comparison_fig, graphs, calc_df,
           calc_result, calc_price, universe, source, seen, sort_memo, cache,
           source_calls >>

calc_vars == << calc_df, calc_result, calc_price >>

\* state outside a single request: the DataSource, the earlier results, the
\* sort's choices and the streamlit cache
keyed_vars == << source, seen, sort_memo, cache, source_calls >>

summary_vars == << performance_df, best_performer, worst_performer,
                   avg_performance >>

\* ------------------------------------------------------ dict and list
\* a dict that puts a new key in front
DictSetFront(d, key, value) ==
    IF \E i \in 1..Len(d) : d[i].name = key
    THEN [i \in 1..Len(d) |-> IF d[i].name = key THEN value ELSE d[i]]
    ELSE << value >> \o d

\* d[key] = value on a dict kept in insertion order
DictSet(d, key, value) ==
    IF \E i \in 1..Len(d) : d[i].name = key
    THEN [i \in 1..Len(d) |-> IF d[i].name = key THEN value ELSE d[i]]
    ELSE Append(d, value)

\* the locals a request starts with
FreshLocals ==
    /\ idx = 1
    /\ calls = [i \in 1..Len(Universe) |-> 0]
    /\ fetch_log = << >>
    /\ info_log = << >>
    /\ all_data = << >>
    /\ performance_data = << >>
    /\ performance_df = << >>
    /\ best_performer = << >>
    /\ worst_performer = << >>
    /\ avg_performance = FloatOf(0)
    /\ comparison_fig = << >>
    /\ graphs = << >>

\* a process that has just started: nothing cached, nothing served yet
EmptyCache == [k \in Keys |-> << >>]
NoCalls == [k \in Keys |-> 0]
NothingSeen == [p \in KeyedPeriods |-> << >>]

\* the DataSource is left open (every call may answer anything) and no
\* request has been served
NoKeyedState ==
    /\ source = << >>
    /\ seen = NothingSeen
    /\ sort_memo = << >>
    /\ cache = EmptyCache
    /\ source_calls = NoCalls

Init ==
    /\ variant \in Variants
    /\ selected_period \in Periods
    /\ pc = "fetch"
    /\ FreshLocals
    /\ calc_df = None
    /\ calc_result = << >>
    /\ calc_price = << >>
    /\ universe = Universe
    /\ NoKeyedState

\* ------------------------------------------------- the loop over instruments
\* the card dashboard.py appends for one instrument
GraphOf(name, df, pct_change, current_price) ==
    [name |-> name, y |-> df.close, change |-> pct_change,
     current_price |-> current_price]

\* the test of the loops: df is not None and len(df) > 0
Accepted(df) == ~df.isNone /\ Len(df.close) > 0

\* a loop that stays on the same item
NextIdxStuck(i) == i

\* the for loop moves on to the next item
NextIdx(i) == i + 1

\* a loop that is left one item before the end
AfterIterationEarly(v, i) ==
    IF i < Len(Universe) - 1 THEN "fetch"
    ELSE IF v = "dashboard" THEN "done" ELSE "summary"

\* pc after the iteration at position i
AfterIteration(v, i) ==
    IF i < Len(Universe) THEN "fetch"
    ELSE IF v = "dashboard" THEN "done" ELSE "summary"

\* the rest of one iteration once get_stock_data has returned df: the
\* `if df is not None and len(df) > 0` and its body, over the items of the
\* dict `items`
Iterate(items, df) ==
    /\ fetch_log' = Append(fetch_log, df)
    /\ LET ticker == items[idx].ticker
           name == items[idx].name
       IN  IF Accepted(df)
           THEN LET pct_change == calculate_change(variant, df)
                    current_price == current_price_of(df)
                IN  IF variant = "dashboard"
                    THEN /\ graphs' = Append(graphs,
                                GraphOf(name, df, pct_change, current_price))
                         /\ UNCHANGED << all_data, performance_data >>
                    ELSE /\ all_data' = DictSet(all_data, name,
                                [name |-> name, df |-> df,
                                 change |-> pct_change,
                                 current_price |-> current_price,
                                 ticker |-> ticker])
                         /\ performance_data' = Append(performance_data,
                                [Company |-> name, Change |-> pct_change,
                                 Price |-> current_price])
                         /\ UNCHANGED graphs
           ELSE UNCHANGED << all_data, performance_data, graphs >>
    /\ idx' = NextIdx(idx)
    /\ pc' = AfterIteration(variant, idx)
    /\ UNCHANGED << variant, selected_period, summary_vars, comparison_fig,
                    calc_vars, universe >>

\* one iteration: get_stock_data, then the `if df is not None and len(df) > 0`
FetchStep ==
    /\ pc = "fetch"
    /\ idx <= Len(universe)
    /\ \E hist \in HistoryOutcomes :
       \E infoRaises \in InfoOutcomes(variant, hist) :
         /\ calls' = [calls EXCEPT ![idx] = @ + 1]
         /\ info_log' = Append(info_log, InfoCall(variant, hist, infoRaises))
         /\ Iterate(universe, get_stock_data(variant, hist, infoRaises))
    /\ UNCHANGED keyed_vars

\* ------------------------------------------------------------ the summary
\* row i of pd.DataFrame(performance_data): the index label is the position
RowOf(perf, i) ==
    [index |-> i, Company |-> perf[i].Company, Change |-> perf[i].Change,
     Price |-> perf[i].Price]

\* the same sort, ascending
MayPrecedeAscending(a, ia, b, ib) ==
    IF IsNaN(a) THEN IsNaN(b) /\ ia < ib
    ELSE IF IsNaN(b) THEN TRUE
    ELSE ~FLess(b, a)

\* sort_values('Change', ascending=False), default kind='quicksort' and
\* na_position='last': whether a row with Change a and label ia may stand
\* before a row with Change b and label ib.  NaN rows go last, in label
\* order; among the others no larger value comes later; the order of equal
\* values is not fixed (quicksort is not a stable sort).
MayPrecede(a, ia, b, ib) ==
    IF IsNaN(a) THEN IsNaN(b) /\ ia < ib
    ELSE IF IsNaN(b) THEN TRUE
    ELSE ~FLess(a, b)

\* the orders of the row labels the sort can produce
argsort(perf) ==
    LET n == Len(perf)
    IN  {f \in Permutations(1..n) :
            \A i, j \in 1..n : i < j =>
               MayPrecede(perf[f[i]].Change, f[i], perf[f[j]].Change, f[j])}

\* the rows of perf in the order f
take(perf, f) == [i \in 1..Len(perf) |-> RowOf(perf, f[i])]

\* the frames sort_values can return for a non-empty list of rows
sort_values(perf) == {take(perf, f) : f \in argsort(perf)}

NotNaN(r) == ~IsNaN(r)

RECURSIVE FSum(_)
FSum(s) == IF s = << >> THEN FloatOf(0) ELSE FAdd(s[1], FSum(Tail(s)))

\* performance_df['Change'].mean(): skipna=True leaves NaN out of the sum
\* and out of the count
mean(rows) ==
    LET changes == [i \in 1..Len(rows) |-> rows[i].Change]
        kept == SelectSeq(changes, NotNaN)
    IN  IF kept = << >> THEN NaN ELSE FDivInt(FSum(kept), Len(kept))

\* sort, iloc[0], iloc[-1], mean on a non-empty performance_data
Summarize ==
    \E sorted \in sort_values(performance_data) :
        /\ performance_df' = sorted
        /\ best_performer' = << sorted[1] >>
        /\ worst_performer' = << sorted[Len(sorted)] >>
        /\ avg_performance' = mean(sorted)

\* dashboard_enhanced.py 131-135: the sort is not guarded, and sort_values
\* on the column-less frame of an empty list raises KeyError('Change')
UpdateDashboardSummary ==
    /\ pc = "summary"
    /\ variant = "dashboard_enhanced"
    /\ \/ /\ performance_data = << >>
          /\ pc' = "crashed"
          /\ UNCHANGED summary_vars
       \/ /\ performance_data # << >>
          /\ Summarize
          /\ pc' = "charts"
    /\ UNCHANGED << variant, selected_period, idx, calls, fetch_log, info_log,
                    all_data, performance_data, comparison_fig, graphs,
                    calc_vars, universe, keyed_vars >>

\* streamlit_app.py 81-89: st.error and st.stop() on an empty list
StreamlitSummary ==
    /\ pc = "summary"
    /\ variant = "streamlit_app"
    /\ \/ /\ performance_data = << >>
          /\ pc' = "no_data"
          /\ UNCHANGED summary_vars
       \/ /\ performance_data # << >>
          /\ Summarize
          /\ pc' = "charts"
    /\ UNCHANGED << variant, selected_period, idx, calls, fetch_log, info_log,
                    all_data, performance_data, comparison_fig, graphs,
                    calc_vars, universe, keyed_vars >>

\* ------------------------------------------------------------- the charts
\* (df['Close'] / df['Close'].iloc[0]) * 100, element by element
normalized_prices(df) ==
    [i \in 1..Len(df.close) |-> FMul(FDiv(df.close[i], df.close[1]), 100)]

\* the comparison chart and the per-instrument charts, both over
\* all_data.items(); the metadata cards of dashboard_enhanced (market cap,
\* P/E, volume) are left out
Charts ==
    /\ pc = "charts"
    /\ comparison_fig' =
          [i \in 1..Len(all_data) |->
              [name |-> all_data[i].name,
               y |-> normalized_prices(all_data[i].df)]]
    /\ graphs' =
          [i \in 1..Len(all_data) |->
              GraphOf(all_data[i].name, all_data[i].df, all_data[i].change,
                      all_data[i].current_price)]
    /\ pc' = "done"
    /\ UNCHANGED << variant, selected_period, idx, calls, fetch_log, info_log,
                    all_data, performance_data, summary_vars, calc_vars,
                    universe, keyed_vars >>

\* ------------------------------------------------------------ next request
Terminal == {"done", "no_data", "crashed"}

\* the callback fires again (a new selector value), or the script reruns:
\* every local is created afresh
NewRequest ==
    /\ pc \in Terminal
    /\ selected_period' \in Periods
    /\ pc' = "fetch"
    /\ idx' = 1
    /\ calls' = [i \in 1..Len(Universe) |-> 0]
    /\ fetch_log' = << >>
    /\ info_log' = << >>
    /\ all_data' = << >>
    /\ performance_data' = << >>
    /\ performance_df' = << >>
    /\ best_performer' = << >>
    /\ worst_performer' = << >>
    /\ avg_performance' = FloatOf(0)
    /\ comparison_fig' = << >>
    /\ graphs' = << >>
    /\ UNCHANGED << variant, calc_vars, universe, keyed_vars >>

Next ==
    \/ FetchStep
    \/ UpdateDashboardSummary
    \/ StreamlitSummary
    \/ Charts
    \/ NewRequest

Spec == Init /\ [][Next]_vars

\* ------------------------------------- calculate_change called on its own
CalcFrames ==
    {None} \cup {DataFrame(c) :
                    c \in SeqsUpTo((0 - CalcMaxClose)..CalcMaxClose, 0, CalcMaxLen)}

InitCalc ==
    /\ variant \in Variants
    /\ selected_period = "1y"
    /\ pc = "calc"
    /\ FreshLocals
    /\ calc_df \in CalcFrames
    /\ calc_result = << >>
    /\ calc_price = << >>
    /\ universe = Universe
    /\ NoKeyedState

\* calculate_change(df) on any frame, None and the empty frame included
CalcStep ==
    /\ pc = "calc"
    /\ calc_result' = << calculate_change(variant, calc_df) >>
    /\ calc_price' = << >>
    /\ pc' = "calc_done"
    /\ UNCHANGED << variant, selected_period, idx, calls, fetch_log, info_log,
                    all_data, performance_data, summary_vars, comparison_fig,
                    graphs, calc_df, universe, keyed_vars >>

\* the body of the loop on one frame: behind `df is not None and len(df) > 0`
\* it computes pct_change and current_price
CalcBody ==
    /\ pc = "calc"
    /\ Accepted(calc_df)
    /\ calc_result' = << calculate_change(variant, calc_df) >>
    /\ calc_price' = << current_price_of(calc_df) >>
    /\ pc' = "body_done"
    /\ UNCHANGED << variant, selected_period, idx, calls, fetch_log, info_log,
                    all_data, performance_data, summary_vars, comparison_fig,
                    graphs, calc_df, universe, keyed_vars >>

NextCalc == CalcStep \/ CalcBody

SpecCalc == InitCalc /\ [][NextCalc]_vars

\* --------------------------------- requests repeated over a fixed DataSource
Raises == [raises |-> TRUE, close |-> << >>]

\* the answers stock.history has for a key where the DataSource is fixed: an
\* exception, a frame that fell to 0 (-100%), a frame that stayed at 1 (0%)
RepeatAnswers ==
    {Raises, [raises |-> FALSE, close |-> << 1, 0 >>],
             [raises |-> FALSE, close |-> << 1, 1 >>]}

\* the answers stock.history has for a key where every call may answer
\* anew: an exception, an empty frame, a frame that stayed at 1
CacheAnswers ==
    {Raises, [raises |-> FALSE, close |-> << >>],
             [raises |-> FALSE, close |-> << 1, 1 >>]}

\* the keys of the first KeyedTickers instruments
VaryingKeys ==
    {CacheKey(Universe[i].ticker, p) :
        i \in 1..KeyedTickers, p \in KeyedPeriods}

\* what stock.history may answer for a key: the fixed answer, or any answer
Answers(fixed, key) ==
    IF key \notin VaryingKeys THEN {Raises}
    ELSE IF fixed THEN {source[key]}
    ELSE CacheAnswers

\* a cache that keeps frames only
StoreUnlessNone(c, key, df, args) ==
    IF df.isNone THEN c
    ELSE [c EXCEPT ![key] = << [value |-> df, origin |-> args] >>]

\* st.cache_data stores the return value of the call under the key of its
\* arguments; origin notes the arguments of the call that computed it
Store(c, key, df, args) ==
    [c EXCEPT ![key] = << [value |-> df, origin |-> args] >>]

\* one iteration where get_stock_data is keyed: streamlit_app's
\* @st.cache_data returns the stored value of the key without running the
\* function; otherwise the function runs (stock.info returning where it is
\* read) and, in streamlit_app, its return value is stored under the key,
\* None included
KeyedFetch(fixed) ==
    /\ pc = "fetch"
    /\ idx <= Len(universe)
    /\ LET ticker == universe[idx].ticker
           key == CacheKey(ticker, selected_period)
       IN  IF variant = "streamlit_app" /\ cache[key] # << >>
           THEN /\ Iterate(universe, cache[key][1].value)
                /\ info_log' = Append(info_log, NoInfoCall)
                /\ UNCHANGED << calls, cache, source_calls >>
           ELSE \E hist \in Answers(fixed, key) :
                  LET df == get_stock_data(variant, hist, FALSE)
                  IN  /\ Iterate(universe, df)
                      /\ calls' = [calls EXCEPT ![idx] = @ + 1]
                      /\ info_log' = Append(info_log,
                                            InfoCall(variant, hist, FALSE))
                      /\ IF variant = "streamlit_app"
                         THEN /\ cache' = Store(cache, key, df,
                                               << ticker, selected_period >>)
                              /\ source_calls' =
                                    [source_calls EXCEPT ![key] = @ + 1]
                         ELSE UNCHANGED << cache, source_calls >>

FetchFixed ==
    /\ KeyedFetch(TRUE)
    /\ UNCHANGED << source, seen, sort_memo >>

\* the sort as the function it is: called again on the same Change column
\* it gives the same order again
SummarizeRepeatable ==
    LET key == [i \in 1..Len(performance_data) |-> performance_data[i].Change]
        orders == IF key \in DOMAIN sort_memo THEN {sort_memo[key]}
                  ELSE argsort(performance_data)
    IN  \E f \in orders :
          LET sorted == take(performance_data, f)
          IN  /\ sort_memo' = (key :> f) @@ sort_memo
              /\ performance_df' = sorted
              /\ best_performer' = << sorted[1] >>
              /\ worst_performer' = << sorted[Len(sorted)] >>
              /\ avg_performance' = mean(sorted)

\* the summary of dashboard_enhanced (131-135) and of streamlit_app (81-89)
RepeatSummary ==
    /\ pc = "summary"
    /\ \/ /\ performance_data = << >>
          /\ pc' = IF variant = "dashboard_enhanced" THEN "crashed"
                   ELSE "no_data"
          /\ UNCHANGED << summary_vars, sort_memo >>
       \/ /\ performance_data # << >>
          /\ SummarizeRepeatable
          /\ pc' = "charts"
    /\ UNCHANGED << variant, selected_period, idx, calls, fetch_log, info_log,
                    all_data, performance_data, comparison_fig, graphs,
                    calc_vars, universe, source, seen, cache, source_calls >>

\* a request that starts on the records of the one before
StartRequestKeepingRecords(period) ==
    /\ selected_period' = period
    /\ pc' = "fetch"
    /\ idx' = 1
    /\ calls' = [i \in 1..Len(Universe) |-> 0]
    /\ fetch_log' = << >>
    /\ info_log' = << >>
    /\ all_data' = all_data
    /\ performance_data' = performance_data
    /\ performance_df' = << >>
    /\ best_performer' = << >>
    /\ worst_performer' = << >>
    /\ avg_performance' = FloatOf(0)
    /\ comparison_fig' = << >>
    /\ graphs' = << >>
    /\ UNCHANGED << variant, calc_vars, universe >>

\* the callback, or the script, runs from its first line with the selector
\* at `period`: every local is created afresh, pharma_stocks is only read
StartRequest(period) ==
    /\ selected_period' = period
    /\ pc' = "fetch"
    /\ idx' = 1
    /\ calls' = [i \in 1..Len(Universe) |-> 0]
    /\ fetch_log' = << >>
    /\ info_log' = << >>
    /\ all_data' = << >>
    /\ performance_data' = << >>
    /\ performance_df' = << >>
    /\ best_performer' = << >>
    /\ worst_performer' = << >>
    /\ avg_performance' = FloatOf(0)
    /\ comparison_fig' = << >>
    /\ graphs' = << >>
    /\ UNCHANGED << variant, calc_vars, universe >>

\* what a request that has ended hands to the page
Result ==
    [outcome |-> pc, records |-> all_data, performance |-> performance_data,
     ranking |-> performance_df, best |-> best_performer,
     worst |-> worst_performer, average |-> avg_performance,
     comparison |-> comparison_fig, graphs |-> graphs]

\* the next request, for any period; the result of the first request of a
\* period is kept for comparison
RepeatRequest ==
    /\ pc \in Terminal
    /\ seen' = [seen EXCEPT ![selected_period] =
                    IF @ = << >> THEN << Result >> ELSE @]
    /\ \E p \in KeyedPeriods : StartRequest(p)
    /\ UNCHANGED << source, sort_memo, cache, source_calls >>

InitRepeat ==
    /\ variant \in Variants
    /\ selected_period \in KeyedPeriods
    /\ pc = "fetch"
    /\ FreshLocals
    /\ calc_df = None
    /\ calc_result = << >>
    /\ calc_price = << >>
    /\ universe = Universe
    /\ source \in [VaryingKeys -> RepeatAnswers]
    /\ seen = NothingSeen
    /\ sort_memo = << >>
    /\ cache = EmptyCache
    /\ source_calls = NoCalls

NextRepeat ==
    \/ FetchFixed
    \/ RepeatSummary
    \/ Charts
    \/ RepeatRequest

SpecRepeat == InitRepeat /\ [][NextRepeat]_vars

\* ------------------------------------------- streamlit_app and its cache
FetchCached ==
    /\ KeyedFetch(FALSE)
    /\ UNCHANGED << source, seen, sort_memo >>

\* a widget is used while the page is up: streamlit runs the script again
\* from its first line, with the selector at any of its values
Rerun ==
    /\ \E p \in KeyedPeriods : StartRequest(p)
    /\ UNCHANGED keyed_vars

\* the Refresh Data button: st.cache_data.clear(), then st.rerun()
Refresh ==
    /\ cache' = EmptyCache
    /\ source_calls' = NoCalls
    /\ StartRequest(selected_period)
    /\ UNCHANGED << source, seen, sort_memo >>

\* ttl=3600: an entry is dropped 3600 seconds after it was stored.  A key is
\* looked up once per run, so an entry that runs out at any moment has the
\* effect of one that is gone when the next run to look it up starts: the
\* entries are dropped here before the first lookup of a run
Expire ==
    /\ pc = "fetch"
    /\ idx = 1
    /\ \E key \in Keys :
          /\ cache[key] # << >>
          /\ cache' = [cache EXCEPT ![key] = << >>]
          /\ source_calls' = [source_calls EXCEPT ![key] = 0]
    /\ UNCHANGED << variant, selected_period, pc, idx, calls, fetch_log,
                    info_log, all_data, performance_data, summary_vars,
                    comparison_fig, graphs, calc_vars, universe, source, seen,
                    sort_memo >>

InitCache ==
    /\ variant = "streamlit_app"
    /\ selected_period = "1y"
    /\ pc = "fetch"
    /\ FreshLocals
    /\ calc_df = None
    /\ calc_result = << >>
    /\ calc_price = << >>
    /\ universe = Universe
    /\ NoKeyedState

NextCache ==
    \/ FetchCached
    \/ StreamlitSummary
    \/ Charts
    \/ Rerun
    \/ Refresh
    \/ Expire

SpecCache == InitCache /\ [][NextCache]_vars

\* ================================================================ claims
Summarizing == variant \in {"dashboard_enhanced", "streamlit_app"}

\* the loop has gone through every instrument
LoopDone == Len(fetch_log) = Len(Universe)

\* iteration i ended without a usable frame
Failed(i) == ~Accepted(fetch_log[i])

\* names of the instruments fetched so far with a non-empty frame, in the
\* order of pharma_stocks
RECURSIVE NamesFetched(_)
NamesFetched(k) ==
    IF k = 0 THEN << >>
    ELSE IF Accepted(fetch_log[k])
         THEN Append(NamesFetched(k - 1), Universe[k].name)
         ELSE NamesFetched(k - 1)

ExpectedNames == NamesFetched(Len(fetch_log))

NamesOf(s) == [i \in 1..Len(s) |-> s[i].name]
CompaniesOf(s) == [i \in 1..Len(s) |-> s[i].Company]

\* the records of the request: the cards of dashboard.py, else all_data
Records == IF variant = "dashboard" THEN graphs ELSE all_data

IsZero(r) == r.d > 0 /\ r.n = 0

\* ---------------------------------------------------------------- C1
\* C1 (as stated): in dashboard_enhanced and streamlit_app, once every
\* instrument has been fetched and none gave a usable frame, the request is
\* past the summary only in the 'no data' state, never crashed, and no
\* best / worst / average was computed.
C1_AllFailedEndsNoData ==
    (Summarizing /\ LoopDone /\ pc # "summary"
        /\ \A i \in 1..Len(fetch_log) : Failed(i))
    => /\ pc = "no_data"
       /\ best_performer = << >>
       /\ worst_performer = << >>

\* ---------------------------------------------------------------- C2
\* C2 (as stated): whatever subset of the fetches fails, the aggregation
\* completes (it never ends in an exception), every iteration is run (a
\* failure does not stop the loop), and the records are exactly the
\* instruments whose fetch gave a non-empty frame.
C2_PartialFailureCompletes ==
    /\ pc # "crashed"
    /\ Len(fetch_log) = idx - 1
    /\ pc # "fetch" => LoopDone
    /\ NamesOf(Records) = ExpectedNames

\* ---------------------------------------------------------------- C3
\* C3 (as stated): calculate_change returns 0 when the frame is None, has
\* no rows, or has a first close <= 0, in each of the three variants.
C3_ZeroOnInvalid ==
    (pc = "calc_done"
        /\ (calc_df.isNone \/ Len(calc_df.close) = 0 \/ calc_df.close[1] <= 0))
    => IsZero(calc_result[1])

\* ---------------------------------------------------------------- C4
\* C4: when the loop body has run on a non-empty frame whose first close is
\* > 0, pct_change is (close[last] - close[first]) / close[first] * 100 (a
\* finite number, 0 for a one-row frame) and current_price is close[last].
C4_ChangeFormula ==
    (pc = "body_done" /\ calc_df.close[1] > 0)
    => LET first == calc_df.close[1]
           last == calc_df.close[Len(calc_df.close)]
           r == calc_result[1]
       IN  /\ IsFinite(r)
           /\ r.n * first = (last - first) * 100 * r.d
           /\ Len(calc_df.close) = 1 => IsZero(r)
           /\ calc_price = << last >>

\* a three-row frame with first close 2 whose change is neither 0 nor a
\* whole multiple of 100, and whose last close differs from the others
C4_Witness ==
    /\ pc = "body_done"
    /\ Len(calc_df.close) = 3
    /\ calc_df.close[1] = 2
    /\ calc_df.close[2] # calc_df.close[3]
    /\ calc_df.close[3] = 1
    /\ calc_result[1].n * 2 = (0 - 100) * calc_result[1].d

\* ---------------------------------------------------------------- C5
\* the summary of this request has been computed
SummaryDone == Summarizing /\ pc \in {"charts", "done"}

Change(i) == performance_data[i].Change
PerfIdx == 1..Len(performance_data)
NoNaNRows == \A i \in PerfIdx : ~IsNaN(Change(i))

\* position of a company in the configured universe
PosOf(company) == CHOOSE k \in 1..Len(Universe) : Universe[k].name = company

\* a ranks strictly below b in the descending ranking (NaN below every number)
Below(a, b) == ~IsNaN(b) /\ (IsNaN(a) \/ FLess(a, b))

IsMaxAt(i) == \A j \in PerfIdx : ~Below(Change(i), Change(j))
IsMinAt(i) == \A j \in PerfIdx : ~Below(Change(j), Change(i))

\* C5 (as stated): best is, of the records with the maximal percentChange,
\* the one that comes first in universe order, and worst is, of the records
\* with the minimal percentChange, the one that comes first in universe order.
C5_TiesFirstSeen ==
    (SummaryDone /\ NoNaNRows)
    => /\ \A i \in PerfIdx : IsMaxAt(i) =>
              PosOf(best_performer[1].Company) <= PosOf(performance_data[i].Company)
       /\ \A i \in PerfIdx : IsMinAt(i) =>
              PosOf(worst_performer[1].Company) <= PosOf(performance_data[i].Company)

\* C5 (amended): best is one of the records with the maximal percentChange
\* and worst is one of the records with the minimal percentChange (a NaN
\* ranking below every number); which of several tied records is taken is
\* not fixed by universe order.
C5_TiesSomeExtreme ==
    SummaryDone
    => /\ best_performer[1].index \in PerfIdx
       /\ worst_performer[1].index \in PerfIdx
       /\ best_performer[1] = RowOf(performance_data, best_performer[1].index)
       /\ worst_performer[1] = RowOf(performance_data, worst_performer[1].index)
       /\ IsMaxAt(best_performer[1].index)
       /\ IsMinAt(worst_performer[1].index)

\* several records share the minimal percentChange and worst is not the one
\* that comes first in universe order
C5_Witness ==
    /\ SummaryDone
    /\ NoNaNRows
    /\ \E i \in PerfIdx :
          /\ IsMinAt(i)
          /\ PosOf(performance_data[i].Company) < PosOf(worst_performer[1].Company)
    /\ \E i \in PerfIdx : ~IsMinAt(i)

\* ---------------------------------------------------------------- C6
\* C6 (as stated): once the summary is computed, the ranking is the records
\* sorted by percentChange descending, best is ranking[0] with a maximal
\* percentChange, worst is ranking[last] with a minimal percentChange, and
\* average is the sum of percentChange over all the records divided by the
\* number of records.
C6_SummaryIsReference ==
    SummaryDone
    => LET n == Len(performance_data)
           all == [i \in PerfIdx |-> Change(i)]
       IN  /\ Len(performance_df) = n
           /\ \A i \in PerfIdx : \E k \in 1..n :
                 performance_df[k] = RowOf(performance_data, i)
           /\ \A i, j \in 1..n : i < j =>
                 ~Below(performance_df[i].Change, performance_df[j].Change)
           /\ best_performer = << performance_df[1] >>
           /\ worst_performer = << performance_df[n] >>
           /\ IsMaxAt(best_performer[1].index)
           /\ IsMinAt(worst_performer[1].index)
           /\ FSame(avg_performance, FDivInt(FSum(all), n))

\* ---------------------------------------------------------------- C7
\* C7 (as stated, maxAttempts = 3): a fetch that ended without a series made
\* all 3 attempts first; after a failed attempt with attempts remaining the
\* DataSource is called again for the same instrument instead of the
\* instrument being dropped.
C7_RetryBeforeDrop ==
    \A i \in 1..Len(fetch_log) : Failed(i) => calls[i] >= 3

\* ---------------------------------------------------------------- C8
RECURSIVE SumCalls(_)
SumCalls(k) == IF k = 0 THEN 0 ELSE calls[k] + SumCalls(k - 1)

\* how far a request has come: loop position, then the stages after it
Progress ==
    idx + (CASE pc = "fetch" -> 0
             [] pc = "summary" -> 1
             [] pc = "charts" -> 2
             [] OTHER -> 3)

\* a request that has not ended can take a step: the loop body, one of the
\* two summaries (sort_values has a result for every non-empty list), or
\* the charts
CanStep ==
    /\ pc \in {"fetch", "summary", "charts"} \cup Terminal
    /\ pc = "fetch" => ENABLED FetchStep
    /\ pc = "summary" =>
          /\ Summarizing
          /\ performance_data # << >> => sort_values(performance_data) # {}
    /\ pc = "charts" => ENABLED Charts

\* C8: every fetch calls the DataSource once (so at most maxAttempts times
\* for any maxAttempts >= 1) and ends with a frame or with None; a request
\* makes at most |universe| calls in all, and it always reaches its end:
\* until then a step is always possible and every step takes it further
\* along a path of bounded length.
C8_BoundedCallsTermination ==
    /\ [](\A i \in 1..Len(Universe) : calls[i] <= 1)
    /\ [](SumCalls(Len(Universe)) <= Len(Universe))
    /\ [](Len(fetch_log) = SumCalls(Len(Universe)))
    /\ [](Progress <= Len(Universe) + 4)
    /\ [](CanStep)
    /\ [][pc \notin Terminal => Progress' > Progress]_vars

\* a request over a DataSource that failed for every instrument has ended,
\* after one call per instrument
C8_Witness ==
    /\ pc \in Terminal
    /\ LoopDone
    /\ \A i \in 1..Len(fetch_log) : Failed(i)
    /\ SumCalls(Len(Universe)) = Len(Universe)

\* ---------------------------------------------------------------- C9
\* the record behind a trace of the comparison chart
RecordNamed(name) == CHOOSE k \in 1..Len(all_data) : all_data[k].name = name

\* C9 (as stated): every trace of the comparison chart belongs to a frame
\* whose first close is > 0 and starts at exactly 100.
C9_ComparisonBasePositive ==
    (Summarizing /\ pc = "done")
    => \A t \in 1..Len(comparison_fig) :
          /\ all_data[RecordNamed(comparison_fig[t].name)].df.close[1] > 0
          /\ FSame(comparison_fig[t].y[1], FloatOf(100))

\* ---------------------------------------------------------------- C10
\* C10: the records are at every moment the instruments fetched so far with
\* a non-empty frame, in the order of pharma_stocks; computing the ranking
\* does not reorder all_data or performance_data, and the comparison chart
\* and the per-instrument charts follow that same order.
C10_RecordsInUniverseOrder ==
    IF variant = "dashboard"
    THEN NamesOf(graphs) = ExpectedNames
    ELSE /\ NamesOf(all_data) = ExpectedNames
         /\ CompaniesOf(performance_data) = ExpectedNames
         /\ pc = "done" =>
               /\ NamesOf(comparison_fig) = ExpectedNames
               /\ NamesOf(graphs) = ExpectedNames

\* the charts are drawn, one instrument was skipped, and the ranking puts
\* the records in another order than pharma_stocks
C10_Witness ==
    /\ Summarizing
    /\ pc = "done"
    /\ \E i \in 1..Len(fetch_log) : Failed(i)
    /\ Len(all_data) >= 2
    /\ CompaniesOf(performance_df) # ExpectedNames
    /\ NamesOf(graphs) = ExpectedNames

\* ---------------------------------------------------------------- C11
\* the request is at or past the summary, or holds a value derived by it
SummaryStarted ==
    \/ pc \in {"summary", "charts", "no_data", "crashed"}
    \/ performance_df # << >>
    \/ best_performer # << >>
    \/ worst_performer # << >>
    \/ comparison_fig # << >>

\* C11: ranking, best, worst and average are derived only after
\* get_stock_data has been called and has returned (a frame or None) for
\* every instrument of pharma_stocks: in no reachable state is the request
\* at the summary, or holding one of its values, while an instrument is
\* still unfetched; and no step changes a summary value before that.
C11_SummaryAfterAllFetched ==
    /\ [](SummaryStarted =>
            /\ LoopDone
            /\ idx = Len(Universe) + 1)
    /\ [][summary_vars' # summary_vars /\ pc' # "fetch" => LoopDone]_vars

\* best, worst and average are derived, over a universe in which one
\* instrument failed and another gave a frame
C11_Witness ==
    /\ pc = "charts"
    /\ best_performer # << >>
    /\ worst_performer # << >>
    /\ LoopDone
    /\ Failed(1)
    /\ ~Failed(Len(Universe))

\* ---------------------------------------------------------------- C14
\* the name of instrument i is among the names of s
ShownIn(i, names) == \E k \in 1..Len(names) : names[k] = Universe[i].name

\* instrument i is in the records, the ranking or a chart of this request
InResults(i) ==
    \/ ShownIn(i, NamesOf(all_data))
    \/ ShownIn(i, CompaniesOf(performance_data))
    \/ ShownIn(i, CompaniesOf(performance_df))
    \/ ShownIn(i, NamesOf(comparison_fig))
    \/ ShownIn(i, NamesOf(graphs))

\* stock.history gave rows for instrument i and stock.info then raised
InfoRaisedOnRows(i) ==
    info_log[i].called /\ info_log[i].raised /\ info_log[i].rows

\* C14: in dashboard_enhanced an instrument is in the results only if
\* stock.history and stock.info both returned; when the history has rows and
\* stock.info raises, get_stock_data returns None and the instrument is in
\* none of records, ranking and charts, and the average is taken over the
\* others; every other instrument whose two calls returned with rows keeps
\* its record, with the change and price of its own frame.
C14_InfoFailureSkips ==
    variant = "dashboard_enhanced"
    => /\ Len(info_log) = Len(fetch_log)
       /\ \A i \in 1..Len(fetch_log) :
             /\ InResults(i) => info_log[i].called /\ ~info_log[i].raised
             /\ InfoRaisedOnRows(i) => fetch_log[i] = None /\ ~InResults(i)
             /\ (info_log[i].called /\ ~info_log[i].raised /\ Accepted(fetch_log[i]))
                   => \E k \in 1..Len(all_data) :
                        /\ all_data[k].name = Universe[i].name
                        /\ all_data[k].df = fetch_log[i]
                        /\ all_data[k].change = calculate_change(variant, fetch_log[i])
                        /\ performance_data[k].Company = Universe[i].name
                        /\ performance_data[k].Change = all_data[k].change
       /\ pc \in {"charts", "done"} =>
             /\ Len(performance_df) = Len(performance_data)
             /\ FSame(avg_performance, mean(performance_data))
       /\ pc = "done" =>
             /\ Len(graphs) = Len(all_data)
             /\ Len(comparison_fig) = Len(all_data)

\* the charts are drawn for a request in which stock.info raised for the
\* first instrument, whose history had rows, and the last instrument is shown
C14_Witness ==
    /\ variant = "dashboard_enhanced"
    /\ pc = "done"
    /\ InfoRaisedOnRows(1)
    /\ ShownIn(Len(Universe), NamesOf(graphs))
    /\ ShownIn(Len(Universe), CompaniesOf(performance_df))

CallArgs == << universe[idx].ticker, selected_period >>

\* this step is one iteration of the fetch loop
IterationStep == pc = "fetch" /\ Len(fetch_log') = Len(fetch_log) + 1

\* C13: in streamlit_app, while an entry is kept (no Refresh, no expiry)
\* stock.history is called at most once for its (ticker, period); a call
\* stores what get_stock_data returned, None included, under the arguments
\* of the call and of no other; an iteration that finds an entry gets its
\* value without a call, so an instrument cached as None adds no record;
\* an entry is not replaced while it is kept.
C13_CachedPerKey ==
    /\ [](\A k \in Keys :
            /\ source_calls[k] <= 1
            /\ cache[k] # << >> <=> source_calls[k] = 1
            /\ cache[k] # << >> => cache[k][1].origin = k)
    /\ [][\A k \in Keys : (cache[k] # << >> /\ cache'[k] # << >>)
                              => cache'[k] = cache[k]]_vars
    /\ [][(IterationStep /\ cache[CallArgs] = << >>)
            => /\ cache'[CallArgs] # << >>
               /\ cache'[CallArgs][1].value = fetch_log'[idx]
               /\ cache'[CallArgs][1].origin = CallArgs
               /\ source_calls'[CallArgs] = 1
               /\ calls'[idx] = 1]_vars
    /\ [][(IterationStep /\ cache[CallArgs] # << >>)
            => /\ fetch_log'[idx] = cache[CallArgs][1].value
               /\ UNCHANGED << cache, source_calls, calls >>
               /\ cache[CallArgs][1].value = None
                    => UNCHANGED << all_data, performance_data >>]_vars

\* a run has ended in which the first instrument, cached as None for the
\* selected period by an earlier run, was skipped without a call, while the
\* other period holds a frame for it and the second instrument is shown
C13_Witness ==
    /\ variant = "streamlit_app"
    /\ pc = "done"
    /\ calls[1] = 0
    /\ cache[<< Universe[1].ticker, selected_period >>] # << >>
    /\ cache[<< Universe[1].ticker, selected_period >>][1].value = None
    /\ \E p \in KeyedPeriods :
          /\ cache[<< Universe[1].ticker, p >>] # << >>
          /\ cache[<< Universe[1].ticker, p >>][1].value # None
    /\ ~ShownIn(1, NamesOf(all_data))
    /\ ShownIn(2, NamesOf(graphs))

====
